---- MODULE Spec2Model ----
(***************************************************************************)
(* Desired-state convergence of the cluster ingress operator:              *)
(*   - ensureTrustedCAConfigMap            (controller/ingress)            *)
(*   - ensureServiceMeshOperatorSubscription (controller/gatewayclass)     *)
(*   - Operator.ensureDefaultIngressController (operator.go)               *)
(*   - Operator.handleSingleNode4Dot11Upgrade  (operator.go)               *)
(* run against an object store with optimistic concurrency.  Every store   *)
(* call is one atomic step; callers interleave between their store calls.  *)
(***************************************************************************)
EXTENDS Integers, Sequences, FiniteSets, TLC

\* ------------------------------------------------------------- bounds
NumCallers  == 2   \* concurrent callers of one ensure function
MaxCalls    == 3   \* ensure calls and writes by other actors in one behaviour
MaxRuns     == 3   \* runs of handleSingleNode4Dot11Upgrade (process restarts)
                   \* and writes to the ingress config by other actors
MaxNodes    == 2   \* nodes in the cluster

Callers == 1..NumCallers

\* The reconciler that calls ensureServiceMeshOperatorInstallPlan.
PlanCaller == 0

\* ------------------------------------------------------------- values
Nil   == "nil"       \* the nil error
Unset == "<unset>"   \* a map key that is not present / an empty string field
NoValue == "<none>"  \* nothing read, written or done yet

Transient     == "Transient"
NotFound      == "NotFound"
AlreadyExists == "AlreadyExists"
Conflict      == "Conflict"

None         == <<>>          \* an absent object (nil pointer / not in the store)
Some(o)      == <<o>>
Val(s)       == s[1]

KindCM  == "configmap"
KindSub == "subscription"
KindIC  == "ingresscontroller"
Kinds   == {KindCM, KindSub, KindIC}

VARIABLES
    kind,       \* the resource family the callers of this behaviour reconcile
    wantCM,     \* first result of desiredTrustedCAConfigMap
    store,      \* the managed object in the store: None or Some(object)
    rvCounter,  \* the store's resource-version clock
    pc,         \* pc[c]: position of caller c inside its ensure call
    loc,        \* loc[c]: locals of the call: have, current
    ret,        \* ret[c]: what the last finished call returned
    calls,      \* calls[c]: ensure calls started by c
    log,        \* log[c]: store requests the current call issued, with answers
    dirty,      \* dirty[c]: another actor changed the store since c's call began
    rerun,      \* rerun[c]: the action of c's previous call when that call returned
                \* no error and nobody else wrote since it began, else NoValue
    others,     \* writes done by actors outside the operator
    args,       \* args[c]: the configs c passes to ensureDefaultIngressController
    events      \* events[k]: log records about a state change its resource
                \* underwent that the current call of k has written

ensureVars == <<kind, wantCM, store, rvCounter, pc, loc, ret, calls, log, dirty,
                rerun, others, args, events>>

VARIABLES
    infraConfig,    \* the infrastructure config "cluster" in the store
    ingressConfig,  \* the ingress config "cluster" in the store
    nodes,          \* number of nodes in the store
    gpc,            \* position inside handleSingleNode4Dot11Upgrade
    gloc,           \* its locals: infraConfig, ingressConfig, desiredDefaultPlacement
    attempts,       \* calls of the retry body made by retry.RetryOnConflict
    gret,           \* the error the last finished run returned
    runs,           \* runs started
    glog,           \* what the current run did: reads, patches, answers
    gothers         \* writes to the ingress config by other actors

gateVars == <<infraConfig, ingressConfig, nodes, gpc, gloc, attempts, gret, runs,
              glog, gothers>>

\* One call of updateSubscription on given arguments.
VARIABLES
    cmpIn,          \* the arguments: current, desired
    cmpOut          \* what the call did and returned

cmpVars == <<cmpIn, cmpOut>>

\* Start and the periodic drivers it launches.
VARIABLES
    spc,            \* position of Start
    startInfra,     \* the infraConfig Start fetched; the closure of the
                    \* default-ingresscontroller driver holds it
    lpc,            \* per driver: position of the loop of wait.Until
    bpc,            \* per driver: position inside the body
    running,        \* per driver: executions of the body in progress
    cancelled,      \* ctx is done
    faulty,         \* store calls and the cache sync may fail
    logLevel,       \* logf.CurrentLogLevel
    tick,           \* per driver: what the current tick did
    icTick,         \* what the current default-ingresscontroller tick used
    llTick,         \* what the current ensureLogLevel tick saw and did
    denv            \* writes by other actors while the drivers run

driverVars == <<spc, startInfra, lpc, bpc, running, cancelled, faulty, logLevel,
                tick, icTick, llTick, denv>>

\* One reconciler calling ensureServiceMeshOperatorInstallPlan.
VARIABLES
    plans,          \* the install plans of the namespace, in the order List
                    \* returns them: per name None or Some(install plan)
    prv,            \* the store's resource-version clock for install plans
    ppc,            \* position inside ensureServiceMeshOperatorInstallPlan
    ploc,           \* its local currentInstallPlan
    pret,           \* what the last finished call returned
    plog,           \* what the current call listed, sent, and was answered
    pcalls,         \* calls started
    pothers         \* writes to install plans by other actors

planVars == <<plans, prv, ppc, ploc, pret, plog, pcalls, pothers>>

restVars == <<cmpVars, driverVars, planVars>>

vars == <<ensureVars, gateVars, restVars>>

\* ------------------------------------------------------------- configmap
InjectKey == "config.openshift.io/inject-trusted-cabundle"
OtherKey  == "app"
DescKey   == "description"
DescText  == "ConfigMap providing service CA bundle."

\* A mutation of desiredTrustedCAConfigMap: the label is left out.
DesiredCMNoLabel ==
    [labels      |-> [k \in {InjectKey, OtherKey} |-> Unset],
     annotations |-> [k \in {DescKey} |-> DescText],
     data        |-> Unset,
     rv          |-> 0]

\* desiredTrustedCAConfigMap: the configmap it builds (its Boolean is wantCM).
DesiredCM ==
    [labels      |-> [k \in {InjectKey, OtherKey} |->
                        IF k = InjectKey THEN "true" ELSE Unset],
     annotations |-> [k \in {DescKey} |-> DescText],
     data        |-> Unset,
     rv          |-> 0]

\* Configmaps the store may hold when the operator starts.
InitialCMs ==
    { [labels      |-> [k \in {InjectKey, OtherKey} |->
                          IF k = InjectKey THEN i ELSE o],
       annotations |-> [k \in {DescKey} |-> a],
       data        |-> d,
       rv          |-> 1] :
      i \in {Unset, "true", "false"}, o \in {Unset, "x"},
      a \in {Unset, DescText}, d \in {Unset, "bundle"} }


\* ------------------------------------------------------------- the store
\* Each operator gives the answers the store may give to one request in the
\* current state: the answer its contents determine, or a transient failure.
GetOutcomes ==
    { [err |-> Transient, obj |-> None],
      IF store = None THEN [err |-> NotFound, obj |-> None]
                      ELSE [err |-> Nil, obj |-> store] }

CreateOutcomes(o) ==
    { [err |-> Transient, store |-> store],
      IF store # None
        THEN [err |-> AlreadyExists, store |-> store]
        ELSE [err |-> Nil, store |-> Some([o EXCEPT !.rv = rvCounter + 1])] }

\* An update carries the resource version of the object it was built from.
UpdateOutcomes(o) ==
    { [err |-> Transient, store |-> store],
      IF store = None
        THEN [err |-> NotFound, store |-> store]
        ELSE IF Val(store).rv # o.rv
          THEN [err |-> Conflict, store |-> store]
          ELSE [err |-> Nil, store |-> Some([o EXCEPT !.rv = rvCounter + 1])] }

DeleteOutcomes ==
    { [err |-> Transient, store |-> store],
      IF store = None THEN [err |-> NotFound, store |-> store]
                      ELSE [err |-> Nil, store |-> None] }

\* ------------------------------------------------------------- bookkeeping
Entry(op, err, obj) == [op |-> op, err |-> err, obj |-> obj]

WriteOps == {"create", "update", "delete"}

Writes(c) == SelectSeq(log[c], LAMBDA e : e.op \in WriteOps)

Finished(c) == pc[c] = "idle" /\ calls[c] > 0

RECURSIVE CallsUpTo(_)
CallsUpTo(n) == IF n = 0 THEN 0 ELSE calls[n] + CallsUpTo(n - 1)

\* A mutation of the fetch: every error is taken for "not found".
FetchFailedNever(err) == FALSE

\* currentTrustedCAConfigMap, currentSubscription: an error other than NotFound
\* is returned to the caller of the ensure function.
FetchFailed(err) == err # Nil /\ err # NotFound

\* log.Info("created ...") / ("updated ...") / ("deleted ...") of the ensure
\* functions: one record is written when the store accepted the write.
Logged(err) == IF err = Nil THEN 1 ELSE 0

\* Caller c begins a call with its first fetch, answered r.
BeginCall(c, r) ==
    /\ pc[c] = "idle"
    /\ CallsUpTo(NumCallers) + others < MaxCalls
    /\ calls' = [calls EXCEPT ![c] = @ + 1]
    /\ log' = [log EXCEPT ![c] = <<Entry("get", r.err, r.obj)>>]
    /\ rerun' = [rerun EXCEPT ![c] =
                   IF calls[c] > 0 /\ ret[c].err = Nil /\ ~dirty[c]
                     THEN ret[c].action ELSE NoValue]
    /\ dirty' = [dirty EXCEPT ![c] = FALSE]
    /\ loc' = [loc EXCEPT ![c] = [have |-> r.err = Nil, current |-> r.obj]]
    /\ events' = [events EXCEPT ![c] = 0]
    /\ UNCHANGED <<kind, wantCM, store, rvCounter, others, args, gateVars, restVars>>

\* Caller c sends the write op carrying object o, answered r.
Write(c, op, o, r) ==
    /\ store' = r.store
    /\ rvCounter' = IF r.err = Nil THEN rvCounter + 1 ELSE rvCounter
    /\ log' = [log EXCEPT ![c] = Append(@, Entry(op, r.err, o))]
    /\ events' = [events EXCEPT ![c] = @ + Logged(r.err)]
    /\ dirty' = [d \in Callers |-> IF d # c /\ r.err = Nil THEN TRUE ELSE dirty[d]]
    /\ UNCHANGED <<kind, wantCM, loc, calls, rerun, others, args, gateVars, restVars>>

\* The ReconcileOutcome action of a call, read off the writes the store accepted.
ActionOf(l) ==
    LET done == SelectSeq(l, LAMBDA e : e.op \in WriteOps /\ e.err = Nil) IN
    IF done = <<>> THEN "NoOp"
    ELSE CASE done[1].op = "create" -> "Created"
           [] done[1].op = "update" -> "Updated"
           [] done[1].op = "delete" -> "Deleted"

\* The call returns (exists, obj, err); log' is the log of the finished call.
Return(c, exists, obj, err) ==
    /\ pc' = [pc EXCEPT ![c] = "idle"]
    /\ ret' = [ret EXCEPT ![c] = [exists |-> exists, obj |-> obj, err |-> err,
                                  action |-> ActionOf(log'[c])]]

Goto(c, label) ==
    /\ pc' = [pc EXCEPT ![c] = label]
    /\ UNCHANGED ret

\* The trailing "return r.current...()" of an ensure function.
ReGet(c) ==
    /\ pc[c] = "reget"
    /\ \E r \in GetOutcomes :
        /\ log' = [log EXCEPT ![c] = Append(@, Entry("get", r.err, r.obj))]
        /\ IF r.err \in {Nil, NotFound}
             THEN Return(c, r.err = Nil, r.obj, Nil)
             ELSE Return(c, FALSE, None, r.err)
    /\ UNCHANGED <<kind, wantCM, store, rvCounter, loc, calls, events, dirty, rerun,
                   others, args, gateVars, restVars>>

\* ------------------------------------------------------------- configmap
\* A mutation of the switch: the delete row is taken for a no-op.
BranchNoDelete(want, have) ==
    CASE ~want /\ ~have -> "noop"
      [] ~want /\ have  -> "noop"
      [] want /\ ~have  -> "create"
      [] want /\ have   -> "update"

\* The switch of ensureTrustedCAConfigMap.
Branch(want, have) ==
    CASE ~want /\ ~have -> "noop"
      [] ~want /\ have  -> "delete"
      [] want /\ ~have  -> "create"
      [] want /\ have   -> "update"

\* updateTrustedCAConfigMap, its early return: no update is needed.
CMUpToDate(current) == current.labels[InjectKey] = "true"

\* A mutation of updateTrustedCAConfigMap: the desired object is sent, which
\* carries no resource version.
CMUpdatedFromDesired(current) == DesiredCM

\* updateTrustedCAConfigMap, the object it sends: a copy of current with the
\* label set (a nil label map and one without the key read alike).
CMUpdated(current) == [current EXCEPT !.labels[InjectKey] = "true"]

\* currentTrustedCAConfigMap as called at the top of ensureTrustedCAConfigMap.
CMGet(c) ==
    /\ kind = KindCM
    /\ \E r \in GetOutcomes :
        /\ BeginCall(c, r)
        /\ IF ~FetchFailed(r.err)
             THEN Goto(c, "switch")
             ELSE Return(c, FALSE, None, r.err)

\* case !wantCM && !haveCM
CMNoOp(c) ==
    /\ kind = KindCM /\ pc[c] = "switch"
    /\ Branch(wantCM, loc[c].have) = "noop"
    /\ UNCHANGED <<kind, wantCM, store, rvCounter, loc, calls, events, log, dirty, rerun,
                   others, args, gateVars, restVars>>
    /\ Return(c, FALSE, None, Nil)

\* A mutation of the delete branch: NotFound is returned like any other error.
DeleteSatisfiedStrict(err) == err = Nil

\* The delete branch returns (false, nil, nil) when the delete succeeded or was
\* answered NotFound.
DeleteSatisfied(err) == err = Nil \/ err = NotFound

\* case !wantCM && haveCM
CMDelete(c) ==
    /\ kind = KindCM /\ pc[c] = "switch"
    /\ Branch(wantCM, loc[c].have) = "delete"
    /\ \E r \in DeleteOutcomes :
        /\ Write(c, "delete", Val(loc[c].current), r)
        /\ IF ~DeleteSatisfied(r.err)
             THEN Return(c, TRUE, loc[c].current, r.err)
             ELSE Return(c, FALSE, None, Nil)

\* case wantCM && !haveCM
CMCreate(c) ==
    /\ kind = KindCM /\ pc[c] = "switch"
    /\ Branch(wantCM, loc[c].have) = "create"
    /\ \E r \in CreateOutcomes(DesiredCM) :
        /\ Write(c, "create", DesiredCM, r)
        /\ IF r.err # Nil
             THEN Return(c, FALSE, None, r.err)
             ELSE Goto(c, "reget")

\* case wantCM && haveCM, updateTrustedCAConfigMap included
CMUpdate(c) ==
    /\ kind = KindCM /\ pc[c] = "switch"
    /\ Branch(wantCM, loc[c].have) = "update"
    /\ LET current == Val(loc[c].current) IN
       IF CMUpToDate(current)
         THEN /\ UNCHANGED <<kind, wantCM, store, rvCounter, loc, calls, events, log,
                             dirty, rerun, others, args, gateVars, restVars>>
              /\ Return(c, TRUE, loc[c].current, Nil)
         ELSE \E r \in UpdateOutcomes(CMUpdated(current)) :
                /\ Write(c, "update", CMUpdated(current), r)
                /\ IF r.err = Nil
                     THEN Goto(c, "reget")
                     ELSE IF r.err = AlreadyExists
                       THEN Return(c, TRUE, loc[c].current, Nil)
                       ELSE Return(c, TRUE, loc[c].current, r.err)

\* Actors outside the operator that write configmaps: the CA injector fills in
\* the data, a user drops the label, a user deletes the configmap.
OtherCMWrites ==
    IF store = None THEN {}
    ELSE { Some([Val(store) EXCEPT !.data = "bundle", !.rv = rvCounter + 1]),
           Some([Val(store) EXCEPT !.labels[InjectKey] = Unset,
                                   !.rv = rvCounter + 1]),
           None } \ {store}


\* ------------------------------------------------------------- subscription
serviceMeshOperatorDesiredVersion == "servicemeshoperator.v2.5.0"

\* A map field of a Go struct: nil, empty, or holding entries.
NilMap   == [isNil |-> TRUE,  entries |-> {}]
EmptyMap == [isNil |-> FALSE, entries |-> {}]
InfraMap == [isNil |-> FALSE, entries |-> {"node-role.kubernetes.io/infra"}]

\* The struct spec.config points to; nodeSelector stands for its map and slice
\* fields.
SubConfig(selector) == [nodeSelector |-> selector]

SubSpec(channel, approval) ==
    [channel                |-> channel,
     installPlanApproval    |-> approval,
     package                |-> "servicemeshoperator",
     catalogSource          |-> "redhat-operators",
     catalogSourceNamespace |-> "openshift-marketplace",
     startingCSV            |-> serviceMeshOperatorDesiredVersion,
     config                 |-> None]

WithConfig(spec, config) == [spec EXCEPT !.config = config]

\* desiredSubscription
DesiredSub ==
    [spec   |-> Some(SubSpec("stable", "Manual")),
     meta   |-> Unset,
     status |-> Unset,
     rv     |-> 0]

\* Subscriptions the store may hold when the operator starts: the spec pointer
\* nil, the desired spec, or a spec someone edited.
InitialSubs ==
    { [spec |-> sp, meta |-> m, status |-> st, rv |-> 1] :
      sp \in {None, Some(SubSpec("stable", "Manual")),
              Some(SubSpec("candidate", "Manual")),
              Some(SubSpec("stable", "Automatic"))},
      m \in {Unset, "x"}, st \in {Unset, "AtLatestKnown"} }
    \cup
    { [spec |-> Some(WithConfig(SubSpec("stable", "Manual"),
                                Some(SubConfig(EmptyMap)))),
       meta |-> Unset, status |-> Unset, rv |-> 1] }

\* cmpopts.EquateEmpty on a map or slice: all empty ones are equal, nil or not.
EquateEmpty(a, b) == a = b \/ (a.entries = {} /\ b.entries = {})

\* cmp.Equal on two pointers: equal when both are nil or when both point to
\* equal values.
configEqual(a, b) ==
    IF a = None \/ b = None
      THEN a = b
      ELSE EquateEmpty(Val(a).nodeSelector, Val(b).nodeSelector)

\* cmp.Equal(current.Spec, expected.Spec, cmpopts.EquateEmpty())
specEqual(a, b) ==
    IF a = None \/ b = None
      THEN a = b
      ELSE /\ WithConfig(Val(a), None) = WithConfig(Val(b), None)
           /\ configEqual(Val(a).config, Val(b).config)

\* A mutation of subscriptionChanged: updated is current itself, not a copy.
subscriptionChangedInPlace(current, expected) ==
    IF specEqual(current.spec, expected.spec)
      THEN [changed |-> FALSE, updated |-> None, current |-> current]
      ELSE [changed |-> TRUE,
            updated |-> Some([current EXCEPT !.spec = expected.spec]),
            current |-> [current EXCEPT !.spec = expected.spec]]

\* subscriptionChanged; current is the object its argument points to after the
\* call.
subscriptionChanged(current, expected) ==
    IF specEqual(current.spec, expected.spec)
      THEN [changed |-> FALSE, updated |-> None, current |-> current]
      ELSE [changed |-> TRUE,
            updated |-> Some([current EXCEPT !.spec = expected.spec]),
            current |-> current]

\* currentSubscription as called at the top of
\* ensureServiceMeshOperatorSubscription.
SubGet(c) ==
    /\ kind = KindSub
    /\ \E r \in GetOutcomes :
        /\ BeginCall(c, r)
        /\ IF ~FetchFailed(r.err)
             THEN Goto(c, "switch")
             ELSE Return(c, FALSE, None, r.err)

\* case !have, createSubscription included
SubCreate(c) ==
    /\ kind = KindSub /\ pc[c] = "switch"
    /\ ~loc[c].have
    /\ \E r \in CreateOutcomes(DesiredSub) :
        /\ Write(c, "create", DesiredSub, r)
        /\ IF r.err # Nil
             THEN Return(c, FALSE, None, r.err)
             ELSE Goto(c, "reget")

\* case have, updateSubscription included
SubUpdate(c) ==
    /\ kind = KindSub /\ pc[c] = "switch"
    /\ loc[c].have
    /\ LET current == Val(loc[c].current)
           cmp     == subscriptionChanged(current, DesiredSub)
       IN
       IF ~cmp.changed
         THEN /\ UNCHANGED <<kind, wantCM, store, rvCounter, loc, calls, events, log,
                             dirty, rerun, others, args, gateVars, restVars>>
              /\ Return(c, TRUE, loc[c].current, Nil)
         ELSE \E r \in UpdateOutcomes(Val(cmp.updated)) :
                /\ Write(c, "update", Val(cmp.updated), r)
                /\ IF r.err # Nil
                     THEN Return(c, loc[c].have, Some(cmp.current), r.err)
                     ELSE Goto(c, "reget")

\* updateSubscription has not been called.
NotCalled ==
    [done |-> FALSE, changed |-> FALSE, err |-> Nil, sent |-> None,
     current |-> None]

\* updateSubscription(ctx, current, desired), called on the arguments in cmpIn
\* while the store holds current.
UpdateSubscriptionCall ==
    /\ kind = KindSub /\ ~cmpOut.done
    /\ LET cmp == subscriptionChanged(cmpIn.current, cmpIn.expected) IN
       IF ~cmp.changed
         THEN /\ cmpOut' = [done |-> TRUE, changed |-> FALSE, err |-> Nil,
                            sent |-> None, current |-> Some(cmp.current)]
              /\ UNCHANGED <<store, rvCounter>>
         ELSE \E r \in UpdateOutcomes(Val(cmp.updated)) :
                /\ store' = r.store
                /\ rvCounter' = IF r.err = Nil THEN rvCounter + 1 ELSE rvCounter
                /\ cmpOut' = [done |-> TRUE, changed |-> r.err = Nil,
                              err |-> r.err, sent |-> cmp.updated,
                              current |-> Some(cmp.current)]
    /\ UNCHANGED <<kind, wantCM, pc, loc, ret, calls, events, log, dirty, rerun, others,
                   args, cmpIn, gateVars, driverVars, planVars>>

\* Actors outside the operator that write subscriptions: the lifecycle manager
\* reports status, a user edits the channel, a user deletes the subscription.
OtherSubWrites ==
    IF store = None THEN {}
    ELSE { Some([Val(store) EXCEPT !.status = "AtLatestKnown",
                                   !.rv = rvCounter + 1]),
           Some([Val(store) EXCEPT !.spec = Some(SubSpec("candidate", "Manual")),
                                   !.rv = rvCounter + 1]),
           None }

\* ------------------------------------------------------------- ingresscontroller
SingleReplica   == "SingleReplica"
HighlyAvailable == "HighlyAvailable"
External        == "External"
Workers         == "Workers"
ControlPlane    == "ControlPlane"

\* ingress.DetermineReplicas (controller/ingress)
DetermineReplicas(ingressCfg, infraCfg) ==
    LET topology == IF ingressCfg.defaultPlacement = ControlPlane
                      THEN infraCfg.controlPlaneTopology
                      ELSE infraCfg.infrastructureTopology
    IN IF topology = SingleReplica THEN 1 ELSE 2

\* The ingresscontroller ensureDefaultIngressController builds.
DesiredIC(infraCfg, ingressCfg) ==
    [replicas |-> DetermineReplicas(ingressCfg, infraCfg),
     endpointPublishingStrategy |->
        IF ingressCfg.lbPlatform = "AWS" /\ ingressCfg.awsType = "NLB"
          THEN "LoadBalancerService/External/AWS/NLB" ELSE Unset,
     rv |-> 0]

InitialICs ==
    { [replicas |-> n, endpointPublishingStrategy |-> Unset, rv |-> 1] :
      n \in {1, 3} }

\* A mutation of the fetch: every error is taken for "not found".
IsNotFoundAny(err) == TRUE

\* errors.IsNotFound on the error of the fetch
IsNotFound(err) == err = NotFound

\* o.client.Get at the top of ensureDefaultIngressController
ICGet(c) ==
    /\ kind = KindIC
    /\ \E r \in GetOutcomes :
        /\ BeginCall(c, r)
        /\ IF r.err = Nil
             THEN Return(c, TRUE, None, Nil)
             ELSE IF ~IsNotFound(r.err)
               THEN Return(c, FALSE, None, r.err)
               ELSE Goto(c, "switch")

\* o.client.Create at the end of ensureDefaultIngressController
ICCreate(c) ==
    /\ kind = KindIC /\ pc[c] = "switch"
    /\ LET ic == DesiredIC(args[c].infra, args[c].ingress) IN
       \E r \in CreateOutcomes(ic) :
        /\ Write(c, "create", ic, r)
        /\ IF r.err # Nil
             THEN Return(c, FALSE, None, r.err)
             ELSE Return(c, TRUE, None, Nil)

\* Actors outside the operator that write the ingresscontroller: a user scales
\* it, a user deletes it.
OtherICWrites ==
    IF store = None THEN {}
    ELSE { Some([Val(store) EXCEPT !.replicas = 3, !.rv = rvCounter + 1]),
           None }

\* ------------------------------------------------------------- other actors
OtherWrites ==
    CASE kind = KindCM  -> OtherCMWrites
      [] kind = KindSub -> OtherSubWrites
      [] kind = KindIC  -> OtherICWrites

OtherWriter ==
    /\ CallsUpTo(NumCallers) + others < MaxCalls
    /\ \E s \in OtherWrites :
        /\ store' = s
        /\ rvCounter' = rvCounter + 1
    /\ others' = others + 1
    /\ dirty' = [d \in Callers |-> TRUE]
    /\ UNCHANGED <<kind, wantCM, pc, loc, ret, calls, events, log, rerun, args,
                   gateVars, restVars>>

\* ------------------------------------------------------------- TopologyGate
\* retry.DefaultBackoff.Steps: the attempts retry.RetryOnConflict makes.
Steps == 5

\* A mutation of the attempt bound: one attempt too many.
ExhaustedLate(n) == n >= Steps + 1

\* wait.ExponentialBackoff as used by retry.RetryOnConflict: after the n-th
\* call of the body no further call is made.
Exhausted(n) == n >= Steps

\* A mutation of the retry body: after a conflict the write is repeated with
\* the object of the previous attempt.
AfterConflictStale == "retryPatch"

\* The retry body begins with o.client.Get: a conflict leads back to it.
AfterConflict == "retryGet"

\* A mutation of the short-circuit: the field is never taken for set.
AlreadySetNever(ingressCfg) == FALSE

\* ingressConfig.Status.DefaultPlacement != ""
AlreadySet(ingressCfg) == ingressCfg.defaultPlacement # Unset

\* A mutation of the topology test: the platform type is not looked at.
SingleNodeAnyPlatform(n, infraCfg) ==
    /\ n = 1
    /\ infraCfg.controlPlaneTopology = SingleReplica
    /\ infraCfg.infrastructureTopology = SingleReplica

\* The condition under which ControlPlane is chosen (PlatformStatus present).
SingleNodeNonePlatform(n, infraCfg) ==
    /\ n = 1
    /\ infraCfg.controlPlaneTopology = SingleReplica
    /\ infraCfg.infrastructureTopology = SingleReplica
    /\ infraCfg.platform = "None"

desiredDefaultPlacement(n, infraCfg) ==
    IF SingleNodeNonePlatform(n, infraCfg) THEN ControlPlane ELSE Workers

\* A mutation of the patch: the difference is taken against an empty object,
\* so the patch names every field of the local copy (a whole-object write).
MergeFromEmpty(base, modified) ==
    [f \in DOMAIN modified \ {"rv"} |-> modified[f]]

\* client.MergeFrom(ingressConfig.DeepCopy()) applied to the modified object:
\* the merge patch names the fields whose values differ from the copy, each
\* with its new value; it carries no resource version.
MergePatch(base, modified) ==
    [f \in {g \in DOMAIN modified : base[g] # modified[g]} |-> modified[f]]

\* The store applying a merge patch to the object it holds.
ApplyPatch(obj, patch) ==
    IF DOMAIN patch = {} THEN obj
    ELSE [f \in DOMAIN obj |->
            IF f = "rv" THEN obj.rv + 1
            ELSE IF f \in DOMAIN patch THEN patch[f] ELSE obj[f]]

GateFinished == gpc = "idle" /\ runs > 0

GateReturn(err) ==
    /\ gpc' = "idle"
    /\ gret' = err

\* o.client.Get of the infrastructure config
GateGetInfra ==
    /\ gpc = "idle"
    /\ runs + gothers < MaxRuns
    /\ runs' = runs + 1
    /\ attempts' = 0
    /\ glog' = [gets |-> 0, patches |-> 0, conflicts |-> 0,
                read |-> NoValue, written |-> NoValue, fetched |-> NoValue]
    /\ \E err \in {Nil, Transient} :
         IF err = Nil
           THEN /\ gloc' = [gloc EXCEPT !.infra = infraConfig]
                /\ gpc' = "getIngress"
                /\ gret' = NoValue
           ELSE /\ GateReturn(err)
                /\ UNCHANGED gloc
    /\ UNCHANGED <<infraConfig, ingressConfig, nodes, gothers, ensureVars, restVars>>

\* o.client.Get of the ingress config and the short-circuit
GateGetIngress ==
    /\ gpc = "getIngress"
    /\ \E err \in {Nil, Transient} :
         IF err = Nil
           THEN /\ gloc' = [gloc EXCEPT !.ingress = ingressConfig]
                /\ glog' = [glog EXCEPT !.read = ingressConfig.defaultPlacement]
                /\ IF AlreadySet(ingressConfig)
                     THEN GateReturn(Nil)
                     ELSE gpc' = "listNodes" /\ UNCHANGED gret
           ELSE /\ GateReturn(err)
                /\ UNCHANGED <<gloc, glog>>
    /\ UNCHANGED <<infraConfig, ingressConfig, nodes, attempts, runs, gothers,
                   ensureVars, restVars>>

\* o.client.List of the nodes and the choice of desiredDefaultPlacement
GateListNodes ==
    /\ gpc = "listNodes"
    /\ \E err \in {Nil, Transient} :
         IF err = Nil
           THEN /\ gloc' = [gloc EXCEPT
                              !.desired = desiredDefaultPlacement(nodes, gloc.infra)]
                /\ gpc' = "retryGet"
                /\ UNCHANGED gret
           ELSE /\ GateReturn(err)
                /\ UNCHANGED gloc
    /\ UNCHANGED <<infraConfig, ingressConfig, nodes, attempts, runs, glog,
                   gothers, ensureVars, restVars>>

\* The retry body, its o.client.Get
RetryGet ==
    /\ gpc = "retryGet"
    /\ attempts' = attempts + 1
    /\ \E err \in {Nil, Transient} :
         IF err = Nil
           THEN /\ gloc' = [gloc EXCEPT !.ingress = ingressConfig]
                /\ glog' = [glog EXCEPT !.gets = @ + 1,
                                        !.fetched = ingressConfig.componentRoutes]
                /\ gpc' = "retryPatch"
                /\ UNCHANGED gret
           ELSE /\ GateReturn(err)
                /\ glog' = [glog EXCEPT !.gets = @ + 1]
                /\ UNCHANGED gloc
    /\ UNCHANGED <<infraConfig, ingressConfig, nodes, runs, gothers, ensureVars, restVars>>

\* The retry body, its o.client.Status().Patch, and what retry.RetryOnConflict
\* and handleSingleNode4Dot11Upgrade do with the answer
RetryPatch ==
    /\ gpc = "retryPatch"
    /\ LET patch == MergePatch(gloc.ingress,
                               [gloc.ingress EXCEPT
                                  !.defaultPlacement = gloc.desired]) IN
       \E err \in {Nil, Conflict, Transient} :
         /\ glog' = [glog EXCEPT
                       !.patches = @ + 1,
                       !.conflicts = IF err = Conflict THEN @ + 1 ELSE @,
                       !.written = IF err = Nil THEN gloc.desired ELSE @]
         /\ ingressConfig' = IF err = Nil THEN ApplyPatch(ingressConfig, patch)
                                          ELSE ingressConfig
         /\ gloc' = IF err = Nil
                      THEN [gloc EXCEPT !.ingress = ingressConfig']
                      ELSE [gloc EXCEPT !.ingress.defaultPlacement = gloc.desired]
         /\ IF err = Conflict /\ ~Exhausted(attempts)
              THEN gpc' = AfterConflict /\ UNCHANGED gret
              ELSE GateReturn(err)
    /\ UNCHANGED <<infraConfig, nodes, attempts, runs, gothers, ensureVars, restVars>>

\* Other writers of the ingress config status: another writer backfills
\* defaultPlacement, another operator reports component routes.
OtherGateWriter ==
    /\ runs + gothers < MaxRuns
    /\ gothers' = gothers + 1
    /\ \/ \E p \in {Workers, ControlPlane} :
            /\ ingressConfig.defaultPlacement = Unset
            /\ ingressConfig' = [ingressConfig EXCEPT !.defaultPlacement = p,
                                                      !.rv = @ + 1]
       \/ /\ ingressConfig.componentRoutes = Unset
          /\ ingressConfig' = [ingressConfig EXCEPT !.componentRoutes = "oauth",
                                                    !.rv = @ + 1]
    /\ UNCHANGED <<infraConfig, nodes, gpc, gloc, attempts, gret, runs, glog,
                   ensureVars, restVars>>

\* ------------------------------------------------------------- specification
Topologies == {SingleReplica, HighlyAvailable, External}

InfraCfg(cp, it, pf) ==
    [controlPlaneTopology |-> cp, infrastructureTopology |-> it, platform |-> pf]

IngressCfg(placement, lb, aws) ==
    [defaultPlacement |-> placement, componentRoutes |-> Unset,
     lbPlatform |-> lb, awsType |-> aws, logLevel |-> Unset, rv |-> 1]

\* The configs the callers of ensureDefaultIngressController pass.
InfraArgs == { InfraCfg(t, t, "AWS") : t \in {SingleReplica, HighlyAvailable} }

IngressArgs == { IngressCfg(Workers, "AWS", a) : a \in {"NLB", Unset} }

InitCallers ==
    /\ rvCounter = 1
    /\ pc = [c \in Callers |-> "idle"]
    /\ loc = [c \in Callers |-> [have |-> FALSE, current |-> None]]
    /\ ret = [c \in Callers |-> [exists |-> FALSE, obj |-> None, err |-> Nil,
                                  action |-> "NoOp"]]
    /\ calls = [c \in Callers |-> 0]
    /\ log = [c \in Callers |-> <<>>]
    /\ dirty = [c \in Callers |-> FALSE]
    /\ rerun = [c \in Callers |-> NoValue]
    /\ others = 0
    /\ events = [k \in Callers \cup {PlanCaller} |-> 0]

InitStore ==
    \/ /\ kind = KindCM
       /\ store \in {None} \cup {Some(o) : o \in InitialCMs}
       /\ args = [c \in Callers |-> None]
    \/ /\ kind = KindSub
       /\ store \in {None} \cup {Some(o) : o \in InitialSubs}
       /\ args = [c \in Callers |-> None]
    \/ /\ kind = KindIC
       /\ store \in {None} \cup {Some(o) : o \in InitialICs}
       /\ \E i \in InfraArgs, g \in IngressArgs :
            args = [c \in Callers |-> [infra |-> i, ingress |-> g]]

InitGateLocals ==
    /\ gpc = "idle"
    /\ gloc = [infra |-> infraConfig, ingress |-> ingressConfig,
               desired |-> Workers]
    /\ attempts = 0
    /\ gret = NoValue
    /\ runs = 0
    /\ glog = [gets |-> 0, patches |-> 0, conflicts |-> 0,
               read |-> NoValue, written |-> NoValue, fetched |-> NoValue]
    /\ gothers = 0

\* The TopologyGate at rest.
GateIdle ==
    /\ infraConfig = InfraCfg(HighlyAvailable, HighlyAvailable, "AWS")
    /\ ingressConfig = IngressCfg(Workers, "AWS", Unset)
    /\ nodes = 1
    /\ InitGateLocals

\* ------------------------------------------------------------- drivers
MaxEnv == 1

DefaultIC == "defaultIngressController"
LogLevel  == "ensureLogLevel"
Drivers   == {DefaultIC, LogLevel}

Verbosities == {Unset, "Normal", "Debug", "Trace", "TraceAll"}

\* A mutation of ensureLogLevel: Trace is given the Debug level.
desiredLogLevelTraceAsDebug(verbosity) ==
    CASE verbosity = "Debug"    -> -1
      [] verbosity = "Trace"    -> -1
      [] verbosity = "TraceAll" -> -3
      [] OTHER                  -> 0

\* ensureLogLevel, the switch on Spec.OperatorLogLevel: zap.InfoLevel is 0,
\* zap.DebugLevel is -1.
desiredLogLevel(verbosity) ==
    CASE verbosity = "Debug"    -> -1
      [] verbosity = "Trace"    -> -2
      [] verbosity = "TraceAll" -> -3
      [] OTHER                  -> 0

\* The errors a store call of Start or of a driver may be answered with.
StoreErrs == IF faulty THEN {Nil, Transient} ELSE {Nil}

Answered(r) == r.err # Transient \/ faulty

\* manager.Start has been called, which starts the cache.
CacheStarted == spc \in {"manager", "returned"}

\* WaitForCacheSync(ctx) blocks until the cache has been started and has
\* synced, or ctx is done.
SyncResults ==
    {ok \in BOOLEAN : IF ok THEN CacheStarted ELSE faulty \/ cancelled}

\* A tick that has not called its body: bodies counts the calls of the body
\* in this tick, sync is the answer WaitForCacheSync gave in this tick.
NewTick == [bodies |-> 0, sync |-> "none"]

\* The locals of the running default-ingresscontroller body, and whether the
\* infrastructure config changed while it ran.
NoICTick == [ingress |-> None, infraChanged |-> FALSE]

\* Whether ensureLogLevel fetched the ingress config in this tick and whether
\* it called SetLevel.
NoLLTick == [fetched |-> FALSE, wrote |-> FALSE]

\* A mutation of Start: the control-plane topology is not looked at.
SkipsDefaultICNever(infraCfg) == FALSE

\* infraConfig.Status.ControlPlaneTopology == configv1.ExternalTopologyMode:
\* Start logs that it skips the default ingresscontroller and launches no
\* driver for it.
SkipsDefaultIC(infraCfg) == infraCfg.controlPlaneTopology = External

\* Start up to the gate: the infrastructure config is fetched and the drivers
\* are launched, the default-ingresscontroller driver unless the control
\* plane is external.
StartGetInfra ==
    /\ spc = "getInfra"
    /\ \E err \in StoreErrs :
         IF err # Nil
           THEN /\ spc' = "failed"
                /\ UNCHANGED <<startInfra, lpc>>
           ELSE /\ spc' = "gate"
                /\ startInfra' = infraConfig
                /\ lpc' = [d \in Drivers |->
                             IF d = DefaultIC /\ SkipsDefaultIC(infraConfig)
                               THEN "off" ELSE "top"]
    /\ UNCHANGED <<bpc, running, cancelled, faulty, logLevel, tick, icTick,
                   llTick, denv, ensureVars, gateVars, cmpVars, planVars>>

\* Start calls handleSingleNode4Dot11Upgrade.
StartGate ==
    /\ spc = "gate" /\ runs = 0
    /\ GateGetInfra

\* The gate has returned (its error is only logged); manager.Start is called
\* in a goroutine of its own.
StartManager ==
    /\ spc = "gate" /\ GateFinished
    /\ spc' = "manager"
    /\ UNCHANGED <<startInfra, lpc, bpc, running, cancelled, faulty, logLevel,
                   tick, icTick, llTick, denv, ensureVars, gateVars, cmpVars, planVars>>

\* Start returns when ctx is done.
StartReturn ==
    /\ spc = "manager" /\ cancelled
    /\ spc' = "returned"
    /\ UNCHANGED <<startInfra, lpc, bpc, running, cancelled, faulty, logLevel,
                   tick, icTick, llTick, denv, ensureVars, gateVars, cmpVars, planVars>>

\* A mutation of wait.Until: the body is started in a goroutine of its own.
AfterCallAsync == "top"

\* wait.Until calls the body and waits for it to return.
AfterCall == "calling"

\* A mutation of the drivers: a channel that is never closed is passed for
\* ctx.Done().
StopSignalledNever == FALSE

\* ctx.Done(), the stop channel passed to wait.Until, is closed.
StopSignalled == cancelled

\* A mutation of the default-ingresscontroller driver: its body begins with
\* the fetch of the ingress config.
FirstStepNoSync(d) == "getIngress"

\* The first call of the body: WaitForCacheSync in the closure Start passes
\* for the default ingresscontroller, o.client.Get in ensureLogLevel.
FirstStep(d) == IF d = DefaultIC THEN "waitForCacheSync" ELSE "getIngress"

\* wait.Until at the top of its loop: the stop channel is not closed, the body
\* is called.
BodyStart(d) ==
    /\ lpc[d] = "top" /\ ~StopSignalled
    /\ lpc' = [lpc EXCEPT ![d] = AfterCall]
    /\ bpc' = [bpc EXCEPT ![d] = FirstStep(d)]
    /\ running' = [running EXCEPT ![d] = @ + 1]
    /\ tick' = [tick EXCEPT ![d].bodies = @ + 1]
    /\ UNCHANGED <<spc, startInfra, cancelled, faulty, logLevel, icTick,
                   llTick, denv,
                   ensureVars, gateVars, cmpVars, planVars>>

\* wait.Until at the top of its loop: the stop channel is closed.
TopStop(d) ==
    /\ lpc[d] = "top" /\ StopSignalled
    /\ lpc' = [lpc EXCEPT ![d] = "stopped"]
    /\ UNCHANGED <<spc, startInfra, bpc, running, cancelled, faulty, logLevel,
                   tick, icTick, llTick, denv, ensureVars, gateVars, cmpVars, planVars>>

\* wait.Until after the body: the timer fires, which begins the next tick.
Timer(d) ==
    /\ lpc[d] = "sleep"
    /\ lpc' = [lpc EXCEPT ![d] = "top"]
    /\ tick' = [tick EXCEPT ![d] = NewTick]
    /\ llTick' = IF d = LogLevel THEN NoLLTick ELSE llTick
    /\ UNCHANGED <<spc, startInfra, bpc, running, cancelled, faulty, logLevel,
                   icTick, denv, ensureVars, gateVars, cmpVars, planVars>>

\* wait.Until after the body: the stop channel is closed.
SleepStop(d) ==
    /\ lpc[d] = "sleep" /\ StopSignalled
    /\ lpc' = [lpc EXCEPT ![d] = "stopped"]
    /\ UNCHANGED <<spc, startInfra, bpc, running, cancelled, faulty, logLevel,
                   tick, icTick, llTick, denv, ensureVars, gateVars, cmpVars, planVars>>

\* A mutation of wait.Until: the loop ends when the body has returned.
AfterBodyStops == "stopped"

\* wait.Until after the body: it waits for the timer or the stop channel.
AfterBody == "sleep"

\* The body of driver d returns to wait.Until.
BodyEnd(d) ==
    /\ lpc' = [lpc EXCEPT ![d] = AfterBody]
    /\ bpc' = [bpc EXCEPT ![d] = "none"]
    /\ running' = [running EXCEPT ![d] = @ - 1]

\* The body of driver d has had the answer ok from WaitForCacheSync.
Synced(d, ok) == [tick EXCEPT ![d].sync = ok]

BodyGoto(d, label) ==
    /\ bpc' = [bpc EXCEPT ![d] = label]
    /\ UNCHANGED <<lpc, running>>

\* The body of the default-ingresscontroller driver: WaitForCacheSync
ICWaitForCacheSync ==
    /\ bpc[DefaultIC] = "waitForCacheSync"
    /\ \E ok \in SyncResults :
        IF ok THEN /\ tick' = Synced(DefaultIC, "ok")
                   /\ BodyGoto(DefaultIC, "getIngress")
                   /\ UNCHANGED icTick
              ELSE /\ tick' = Synced(DefaultIC, "failed")
                   /\ BodyEnd(DefaultIC)
                   /\ icTick' = NoICTick
    /\ UNCHANGED <<spc, startInfra, cancelled, faulty, logLevel,
                   llTick, denv, ensureVars, gateVars, cmpVars, planVars>>

\* The body of the default-ingresscontroller driver: o.client.Get of the
\* ingress config
ICGetIngress ==
    /\ bpc[DefaultIC] = "getIngress"
    /\ \E err \in StoreErrs :
         IF err # Nil
           THEN /\ BodyEnd(DefaultIC)
                /\ icTick' = NoICTick
           ELSE /\ icTick' = [icTick EXCEPT !.ingress = Some(ingressConfig)]
                /\ BodyGoto(DefaultIC, "getIC")
    /\ UNCHANGED <<spc, startInfra, cancelled, faulty, logLevel, tick, llTick,
                   denv, ensureVars, gateVars, cmpVars, planVars>>

\* ensureDefaultIngressController called by the driver: o.client.Get
ICEnsureGet ==
    /\ kind = KindIC /\ bpc[DefaultIC] = "getIC"
    /\ \E r \in GetOutcomes :
        /\ Answered(r)
        /\ IF r.err # Nil /\ IsNotFound(r.err)
             THEN /\ BodyGoto(DefaultIC, "create")
                  /\ UNCHANGED icTick
             ELSE /\ BodyEnd(DefaultIC)
                  /\ icTick' = NoICTick
    /\ UNCHANGED <<spc, startInfra, cancelled, faulty, logLevel, tick,
                   llTick, denv, ensureVars, gateVars, cmpVars, planVars>>

\* ensureDefaultIngressController called by the driver: o.client.Create of
\* the ingresscontroller built from the infraConfig of the closure and the
\* ingressConfig of this tick
ICEnsureCreate ==
    /\ kind = KindIC /\ bpc[DefaultIC] = "create"
    /\ LET ic == DesiredIC(startInfra, Val(icTick.ingress)) IN
       \E r \in CreateOutcomes(ic) :
           /\ Answered(r)
           /\ store' = r.store
           /\ rvCounter' = IF r.err = Nil THEN rvCounter + 1 ELSE rvCounter
    /\ BodyEnd(DefaultIC)
    /\ icTick' = NoICTick
    /\ UNCHANGED <<spc, startInfra, cancelled, faulty, logLevel, tick,
                   llTick, denv,
                   kind, wantCM, pc, loc, ret, calls, events, log, dirty, rerun, others,
                   args, gateVars, cmpVars, planVars>>

\* ensureLogLevel: SetLevel is called when the level differs.
SetsLevel(current, desired) == current # desired

\* The body of the log-level driver
ensureLogLevel ==
    /\ bpc[LogLevel] = "getIngress"
    /\ \E err \in StoreErrs :
         IF err # Nil
           THEN UNCHANGED <<logLevel, llTick>>
           ELSE LET desired == desiredLogLevel(ingressConfig.logLevel)
                    sets    == SetsLevel(logLevel, desired)
                IN /\ logLevel' = IF sets THEN desired ELSE logLevel
                   /\ llTick' = [fetched |-> TRUE, wrote |-> sets]
    /\ BodyEnd(LogLevel)
    /\ UNCHANGED <<spc, startInfra, cancelled, faulty, tick, icTick, denv,
                   ensureVars, gateVars, cmpVars, planVars>>

\* The process is told to stop: ctx is cancelled.
Cancel ==
    /\ ~cancelled
    /\ cancelled' = TRUE
    /\ UNCHANGED <<spc, startInfra, lpc, bpc, running, faulty, logLevel, tick,
                   icTick, llTick, denv, ensureVars, gateVars, cmpVars, planVars>>

\* The store and the cache stop failing.
Heal ==
    /\ faulty
    /\ faulty' = FALSE
    /\ UNCHANGED <<spc, startInfra, lpc, bpc, running, cancelled, logLevel,
                   tick, icTick, llTick, denv, ensureVars, gateVars, cmpVars, planVars>>

\* Another actor scales or deletes the default ingresscontroller.
OtherICWriter ==
    /\ kind = KindIC /\ denv < MaxEnv
    /\ denv' = denv + 1
    /\ store' \in OtherICWrites
    /\ rvCounter' = rvCounter + 1
    /\ UNCHANGED <<spc, startInfra, lpc, bpc, running, cancelled, faulty,
                   logLevel, tick, icTick, llTick,
                   kind, wantCM, pc, loc, ret, calls, events, log, dirty, rerun, others,
                   args, gateVars, cmpVars, planVars>>

\* An administrator sets spec.logLevel of the ingress config.
SetVerbosity ==
    /\ denv < MaxEnv
    /\ denv' = denv + 1
    /\ \E v \in Verbosities \ {ingressConfig.logLevel} :
         ingressConfig' = [ingressConfig EXCEPT !.logLevel = v, !.rv = @ + 1]
    /\ UNCHANGED <<spc, startInfra, lpc, bpc, running, cancelled, faulty,
                   logLevel, tick, icTick, llTick,
                   infraConfig, nodes, gpc, gloc, attempts, gret, runs, glog,
                   gothers, ensureVars, cmpVars, planVars>>

\* Compute nodes are added to or removed from the cluster: the infrastructure
\* topology in the infrastructure config changes.
ChangeTopology ==
    /\ denv < MaxEnv
    /\ denv' = denv + 1
    /\ infraConfig' = [infraConfig EXCEPT !.infrastructureTopology =
                         IF @ = SingleReplica THEN HighlyAvailable
                                              ELSE SingleReplica]
    /\ icTick' = IF bpc[DefaultIC] # "none"
                   THEN [icTick EXCEPT !.infraChanged = TRUE]
                   ELSE icTick
    /\ UNCHANGED <<spc, startInfra, lpc, bpc, running, cancelled, faulty,
                   logLevel, tick, llTick,
                   ingressConfig, nodes, gpc, gloc, attempts, gret, runs, glog,
                   gothers, ensureVars, cmpVars, planVars>>

\* Start and its drivers at rest: Start is about to call the gate.
DriversIdle ==
    /\ spc = "gate"
    /\ startInfra = infraConfig
    /\ lpc = [d \in Drivers |-> "off"]
    /\ bpc = [d \in Drivers |-> "none"]
    /\ running = [d \in Drivers |-> 0]
    /\ cancelled = FALSE
    /\ faulty = TRUE
    /\ logLevel = 0
    /\ tick = [d \in Drivers |-> NewTick]
    /\ icTick = NoICTick
    /\ llTick = NoLLTick
    /\ denv = 0

\* ------------------------------------------------------------- install plan
MaxPlans == 2

\* The names of the install plans of the namespace, in list order.
PlanNames == 1..MaxPlans

\* A cluster service version other than the desired one.
OtherVersion == "servicemeshoperator.v2.4.0"

\* An install plan failed to be found by getCurrentInstallPlan.
NoInstallPlan == "No InstallPlan with cluster service version found"

InstallPlan(name, csvNames, approved) ==
    [name |-> name, clusterServiceVersionNames |-> csvNames,
     approved |-> approved, rv |-> 1]

\* Install plans the namespace may hold when the reconciler runs.
InitialPlans(name) ==
    { InstallPlan(name, n, a) :
      n \in { {OtherVersion}, {serviceMeshOperatorDesiredVersion},
              {OtherVersion, serviceMeshOperatorDesiredVersion} },
      a \in BOOLEAN }

\* A mutation of getCurrentInstallPlan: the names are not looked at.
NamesDesiredAny(plan) == TRUE

\* The inner loop of getCurrentInstallPlan: one of the plan's cluster service
\* version names equals the desired version.
NamesDesired(plan) ==
    serviceMeshOperatorDesiredVersion \in plan.clusterServiceVersionNames

Listed(items) == {n \in PlanNames : items[n] # None}

\* getCurrentInstallPlan on the answer of List: nil and no error when the list
\* is empty, the first listed plan that names the desired version, an error
\* when there is none.
getCurrentInstallPlan(items) ==
    LET matching == {n \in Listed(items) : NamesDesired(Val(items[n]))} IN
    IF Listed(items) = {} THEN [plan |-> None, err |-> Nil]
    ELSE IF matching = {} THEN [plan |-> None, err |-> NoInstallPlan]
    ELSE [plan |-> items[CHOOSE n \in matching : \A k \in matching : n <= k],
          err  |-> Nil]

\* The answers the store may give to an update of install plan o.
PlanUpdateOutcomes(o) ==
    { [err |-> Transient, plans |-> plans],
      IF plans[o.name] = None
        THEN [err |-> NotFound, plans |-> plans]
        ELSE IF Val(plans[o.name]).rv # o.rv
          THEN [err |-> Conflict, plans |-> plans]
          ELSE [err |-> Nil,
                plans |-> [plans EXCEPT ![o.name] =
                             Some([o EXCEPT !.rv = prv + 1])]] }

PlanFinished == ppc = "idle" /\ pcalls > 0

PlanReturn(updated, plan, err) ==
    /\ ppc' = "idle"
    /\ pret' = [updated |-> updated, plan |-> plan, err |-> err]

\* ensureServiceMeshOperatorInstallPlan up to its update: getCurrentInstallPlan
\* with its r.client.List, and the test of Spec.Approved
PlanList ==
    /\ ppc = "idle"
    /\ pcalls + pothers < MaxCalls
    /\ pcalls' = pcalls + 1
    /\ \E err \in {Nil, Transient} :
         IF err # Nil
           THEN /\ plog' = [listed |-> None, sent |-> None, answer |-> NoValue]
                /\ ploc' = None
                /\ PlanReturn(FALSE, None, err)
           ELSE LET r == getCurrentInstallPlan(plans) IN
                /\ plog' = [listed |-> Some(plans), sent |-> None,
                            answer |-> NoValue]
                /\ ploc' = r.plan
                /\ IF r.err # Nil THEN PlanReturn(FALSE, None, r.err)
                   ELSE IF r.plan = None THEN PlanReturn(FALSE, None, Nil)
                   ELSE IF ~Val(r.plan).approved
                     THEN ppc' = "update" /\ UNCHANGED pret
                     ELSE PlanReturn(FALSE, r.plan, Nil)
    /\ UNCHANGED <<plans, prv, pothers, ensureVars, gateVars, cmpVars,
                   driverVars>>

\* ensureServiceMeshOperatorInstallPlan: Spec.Approved is set on the local
\* object, which is sent with r.client.Update; no record is logged.
PlanUpdate ==
    /\ ppc = "update"
    /\ LET approved == [Val(ploc) EXCEPT !.approved = TRUE] IN
       \E r \in PlanUpdateOutcomes(approved) :
         /\ plans' = r.plans
         /\ prv' = IF r.err = Nil THEN prv + 1 ELSE prv
         /\ plog' = [plog EXCEPT !.sent = Some(approved), !.answer = r.err]
         /\ IF r.err # Nil
              THEN /\ ploc' = Some(approved)
                   /\ PlanReturn(FALSE, None, r.err)
              ELSE /\ ploc' = r.plans[approved.name]
                   /\ PlanReturn(TRUE, r.plans[approved.name], Nil)
    /\ UNCHANGED <<pcalls, pothers, ensureVars, gateVars, cmpVars, driverVars>>

\* Other actors writing install plans: the lifecycle manager adds a plan for
\* the desired version or removes a plan, an administrator approves a plan.
OtherPlanWriter ==
    /\ pcalls + pothers < MaxCalls
    /\ pothers' = pothers + 1
    /\ prv' = prv + 1
    /\ \E n \in PlanNames :
         \/ /\ plans[n] = None
            /\ plans' = [plans EXCEPT ![n] =
                 Some([InstallPlan(n, {serviceMeshOperatorDesiredVersion}, FALSE)
                         EXCEPT !.rv = prv + 1])]
         \/ /\ plans[n] # None
            /\ plans' = [plans EXCEPT ![n] = None]
         \/ /\ plans[n] # None /\ ~Val(plans[n]).approved
            /\ plans' = [plans EXCEPT ![n] =
                 Some([Val(plans[n]) EXCEPT !.approved = TRUE, !.rv = prv + 1])]
    /\ UNCHANGED <<ppc, ploc, pret, plog, pcalls, ensureVars, gateVars, cmpVars,
                   driverVars>>

\* ensureServiceMeshOperatorInstallPlan at rest, no install plans.
PlanLocalsIdle ==
    /\ prv = 1
    /\ ppc = "idle"
    /\ ploc = None
    /\ pret = [updated |-> FALSE, plan |-> None, err |-> Nil]
    /\ plog = [listed |-> None, sent |-> None, answer |-> NoValue]
    /\ pcalls = 0
    /\ pothers = 0

PlanIdle ==
    /\ plans = [n \in PlanNames |-> None]
    /\ PlanLocalsIdle

\* ------------------------------------------------------------- specifications
\* updateSubscription at rest.
CompareIdle ==
    /\ cmpIn = [current |-> DesiredSub, expected |-> DesiredSub]
    /\ cmpOut = NotCalled

RestIdle == CompareIdle /\ DriversIdle /\ PlanIdle

\* The operator as it is: desiredTrustedCAConfigMap always wants the configmap.
Init ==
    /\ wantCM = TRUE
    /\ InitStore
    /\ InitCallers
    /\ GateIdle
    /\ RestIdle

Next ==
    \/ \E c \in Callers :
         \/ CMGet(c) \/ CMCreate(c) \/ CMUpdate(c)
         \/ SubGet(c) \/ SubCreate(c) \/ SubUpdate(c)
         \/ ICGet(c) \/ ICCreate(c)
         \/ ReGet(c)
    \/ OtherWriter

Spec == Init /\ [][Next]_vars

\* The switch of ensureTrustedCAConfigMap driven with both values of wantCM.
InitTable ==
    /\ wantCM \in BOOLEAN
    /\ kind = KindCM \/ wantCM
    /\ InitStore
    /\ InitCallers
    /\ GateIdle
    /\ RestIdle

NextTable ==
    \/ Next
    \/ \E c \in Callers : CMNoOp(c) \/ CMDelete(c)

SpecTable == InitTable /\ [][NextTable]_vars

\* handleSingleNode4Dot11Upgrade at operator start, on every cluster shape.
InitGate ==
    /\ infraConfig \in { InfraCfg(cp, it, pf) :
                         cp \in Topologies, it \in {SingleReplica, HighlyAvailable},
                         pf \in {"None", "AWS"} }
    /\ ingressConfig \in { IngressCfg(p, "AWS", Unset) :
                           p \in {Unset, Workers, ControlPlane} }
    /\ nodes \in 0..MaxNodes
    /\ InitGateLocals
    /\ kind = KindCM /\ wantCM = TRUE /\ store = None
    /\ args = [c \in Callers |-> None]
    /\ InitCallers
    /\ RestIdle

NextGate ==
    \/ GateGetInfra \/ GateGetIngress \/ GateListNodes
    \/ RetryGet \/ RetryPatch
    \/ OtherGateWriter

SpecGate == InitGate /\ [][NextGate]_vars

\* The scheduler keeps running the goroutine that executes the gate.
SpecGateFair ==
    SpecGate /\ WF_vars(GateGetIngress \/ GateListNodes \/ RetryGet \/ RetryPatch)

\* The specs updateSubscription is called on: the spec pointer nil, or a spec
\* with its config pointer nil or pointing to a config whose map is nil, empty
\* or filled.
CompareSpecs ==
    {None} \cup
    { Some(WithConfig(SubSpec(ch, ap), cfg)) :
      ch \in {"stable", "candidate"}, ap \in {"Manual", "Automatic"},
      cfg \in {None} \cup {Some(SubConfig(sel)) :
                            sel \in {NilMap, EmptyMap, InfraMap}} }

\* updateSubscription on every pair of a fetched and an expected subscription.
InitCompare ==
    /\ cmpIn \in { [current  |-> [spec |-> sp, meta |-> m, status |-> st,
                                  rv |-> 1],
                    expected |-> [spec |-> ex, meta |-> Unset,
                                  status |-> Unset, rv |-> 0]] :
                   sp \in CompareSpecs, ex \in CompareSpecs,
                   m \in {Unset, "x"}, st \in {Unset, "AtLatestKnown"} }
    /\ cmpOut = NotCalled
    /\ kind = KindSub /\ wantCM = TRUE
    /\ store = Some(cmpIn.current)
    /\ args = [c \in Callers |-> None]
    /\ InitCallers
    /\ GateIdle
    /\ DriversIdle
    /\ PlanIdle

NextCompare == UpdateSubscriptionCall

SpecCompare == InitCompare /\ [][NextCompare]_vars

\* A default ingresscontroller created earlier.
DefaultICPresent ==
    [replicas |-> 2, endpointPublishingStrategy |-> Unset, rv |-> 1]

\* Start on a cluster whose defaultPlacement is set (the gate has run before),
\* with the default ingresscontroller present or missing.
InitDrivers ==
    /\ infraConfig \in { InfraCfg(cp, HighlyAvailable, "None") :
                         cp \in {HighlyAvailable, External} }
    /\ ingressConfig = IngressCfg(Workers, "AWS", Unset)
    /\ nodes = 1
    /\ InitGateLocals
    /\ kind = KindIC /\ wantCM = TRUE
    /\ store \in {None, Some(DefaultICPresent)}
    /\ args = [c \in Callers |-> [infra |-> infraConfig,
                                  ingress |-> ingressConfig]]
    /\ InitCallers
    /\ CompareIdle
    /\ PlanIdle
    /\ spc = "getInfra"
    /\ startInfra = infraConfig
    /\ lpc = [d \in Drivers |-> "off"]
    /\ bpc = [d \in Drivers |-> "none"]
    /\ running = [d \in Drivers |-> 0]
    /\ cancelled = FALSE
    /\ faulty = TRUE
    /\ logLevel = 0
    /\ tick = [d \in Drivers |-> NewTick]
    /\ icTick = NoICTick
    /\ llTick = NoLLTick
    /\ denv = 0

\* The goroutine of Start, the gate it calls included.
StartStep ==
    \/ StartGetInfra \/ StartGate \/ GateGetIngress
    \/ StartManager \/ StartReturn

LoopStep(d) == BodyStart(d) \/ TopStop(d) \/ Timer(d) \/ SleepStop(d)

DefaultICStep ==
    ICWaitForCacheSync \/ ICGetIngress \/ ICEnsureGet \/ ICEnsureCreate

NextDrivers ==
    \/ StartGetInfra \/ StartGate \/ StartManager \/ StartReturn
    \/ GateGetIngress
    \/ \E d \in Drivers :
         BodyStart(d) \/ TopStop(d) \/ Timer(d) \/ SleepStop(d)
    \/ ICWaitForCacheSync \/ ICGetIngress \/ ICEnsureGet \/ ICEnsureCreate
    \/ ensureLogLevel
    \/ Cancel \/ Heal
    \/ OtherICWriter \/ SetVerbosity \/ ChangeTopology

SpecDrivers == InitDrivers /\ [][NextDrivers]_vars

\* The scheduler keeps running every goroutine, every store call returns and
\* every timer fires.
SpecDriversFair ==
    /\ SpecDrivers
    /\ WF_vars(StartStep)
    /\ WF_vars(LoopStep(DefaultIC) \/ DefaultICStep)
    /\ WF_vars(LoopStep(LogLevel) \/ ensureLogLevel)

\* ensureServiceMeshOperatorInstallPlan called again and again on a namespace
\* that holds any install plans, with other actors writing install plans.
InitPlan ==
    /\ plans \in [PlanNames -> {None} \cup
                    UNION {{Some(o) : o \in InitialPlans(n)} : n \in PlanNames}]
    /\ \A n \in PlanNames : plans[n] # None => Val(plans[n]).name = n
    /\ PlanLocalsIdle
    /\ kind = KindSub /\ wantCM = TRUE /\ store = None
    /\ args = [c \in Callers |-> None]
    /\ InitCallers
    /\ GateIdle
    /\ CompareIdle
    /\ DriversIdle

NextPlan == PlanList \/ PlanUpdate \/ OtherPlanWriter

SpecPlan == InitPlan /\ [][NextPlan]_vars

\* ------------------------------------------------------------- properties
Ops(l) == [i \in 1..Len(l) |-> l[i].op]

\* The first fetch of the call told whether the object exists.
Decided(c) == calls[c] > 0 /\ log[c][1].err \in {Nil, NotFound}

\* C1: one call of ensureTrustedCAConfigMap or
\* ensureServiceMeshOperatorSubscription sends at most one write, and the write
\* is the one the decision table gives for (want, have): none, one delete, one
\* create, or one update when current differs from desired in what the
\* comparator looks at and none when it does not.
C1_OneWritePerCall ==
    \A c \in Callers :
      (kind \in {KindCM, KindSub} /\ calls[c] > 0) =>
        LET want == IF kind = KindCM THEN wantCM ELSE TRUE
            have == loc[c].have
            differs == IF kind = KindCM
                         THEN Val(loc[c].current).labels[InjectKey] # "true"
                         ELSE Val(loc[c].current).spec # DesiredSub.spec
            expected == IF ~want /\ ~have THEN <<>>
                        ELSE IF ~want /\ have THEN <<"delete">>
                        ELSE IF want /\ ~have THEN <<"create">>
                        ELSE IF differs THEN <<"update">> ELSE <<>>
        IN /\ Len(Writes(c)) <= 1
           /\ ~Decided(c) => Writes(c) = <<>>
           /\ (Decided(c) /\ pc[c] # "switch") => Ops(Writes(c)) = expected
           /\ pc[c] = "switch" => Writes(c) = <<>>

\* A call took the (false, true) row and sent its one delete.
C1_Witness ==
    \E c \in Callers :
      /\ kind = KindCM /\ ~wantCM /\ Finished(c) /\ loc[c].have
      /\ Ops(Writes(c)) = <<"delete">>

\* C2: a call that follows a call of the same caller which returned no error,
\* with no write by anyone else since that earlier call began, sends no
\* create, update or delete.
C2_SecondCallNoOp ==
    \A c \in Callers :
      (rerun[c] # NoValue /\ ~dirty[c]) => Writes(c) = <<>>

\* The second call finished as a no-op right after a call that created the
\* object.
C2_Witness ==
    \E c \in Callers :
      /\ rerun[c] = "Created" /\ ~dirty[c] /\ Finished(c)
      /\ ret[c].err = Nil /\ ret[c].exists /\ ret[c].action = "NoOp"
      /\ kind \in {KindCM, KindSub}

\* What desiredTrustedCAConfigMap and desiredSubscription set: the fields the
\* desired state owns.
Owned(o) ==
    IF kind = KindCM
      THEN <<o.labels[InjectKey], o.annotations[DescKey]>>
      ELSE <<o.spec>>

\* Everything else the object carries.
NotOwned(o) ==
    IF kind = KindCM
      THEN <<o.labels[OtherKey], o.data>>
      ELSE <<o.meta, o.status>>

Desired == IF kind = KindCM THEN DesiredCM ELSE DesiredSub

\* C3: when a call found the object, returned no error and nobody else wrote
\* during it, the stored object equals the desired one in every field the
\* desired state owns and is as it was fetched in every other field.
C3_Converges ==
    \A c \in Callers :
      ( /\ kind \in {KindCM, KindSub}
        /\ Finished(c) /\ loc[c].have /\ ret[c].err = Nil /\ ~dirty[c] ) =>
        /\ store # None
        /\ Owned(Val(store)) = Owned(Desired)
        /\ NotOwned(Val(store)) = NotOwned(Val(loc[c].current))

\* C4: a caller whose create was answered AlreadyExists returns no error and
\* reports the object as existing.
C4_CreateRaceTolerated ==
    \A c \in Callers :
      ( /\ Finished(c) /\ Writes(c) # <<>>
        /\ Writes(c)[1].op = "create" /\ Writes(c)[1].err = AlreadyExists ) =>
        ret[c].err = Nil

\* C5: with want false, a call that found the configmap sends one delete and,
\* when the delete succeeded or was answered NotFound, returns exists = false
\* and no error; a call that found no configmap sends no write and returns
\* exists = false and no error.
C5_DeleteBranch ==
    \A c \in Callers :
      (kind = KindCM /\ ~wantCM /\ Decided(c) /\ pc[c] = "idle") =>
        IF loc[c].have
          THEN /\ Ops(Writes(c)) = <<"delete">>
               /\ Writes(c)[1].err \in {Nil, NotFound} =>
                    (~ret[c].exists /\ ret[c].obj = None /\ ret[c].err = Nil)
          ELSE /\ Writes(c) = <<>>
               /\ ~ret[c].exists /\ ret[c].obj = None /\ ret[c].err = Nil

\* A delete lost the race against another delete and the call returned no
\* error.
C5_Witness ==
    \E c \in Callers :
      /\ kind = KindCM /\ ~wantCM /\ Finished(c) /\ loc[c].have
      /\ Ops(Writes(c)) = <<"delete">> /\ Writes(c)[1].err = NotFound
      /\ ret[c].err = Nil /\ ~ret[c].exists

\* C10: a call whose update was answered Conflict, or whose delete was answered
\* NotFound, returns no error.
C10_RaceErrorsResolved ==
    \A c \in Callers :
      ( /\ Finished(c) /\ Writes(c) # <<>>
        /\ \/ Writes(c)[1].op = "update" /\ Writes(c)[1].err = Conflict
           \/ Writes(c)[1].op = "delete" /\ Writes(c)[1].err = NotFound ) =>
        ret[c].err = Nil

C8_AlreadySetNoWrite ==
    (runs > 0 /\ glog.read \notin {NoValue, Unset}) =>
      /\ glog.patches = 0 /\ glog.gets = 0 /\ glog.written = NoValue
      /\ gpc = "idle" /\ gret = Nil

\* The field was set on a single-node cluster that would otherwise have been
\* given ControlPlane.
C8_Witness ==
    /\ GateFinished /\ glog.read = Workers /\ glog.patches = 0
    /\ nodes = 1 /\ infraConfig = InfraCfg(SingleReplica, SingleReplica, "None")

\* C9: every write of the gate carries ControlPlane when there is exactly one
\* node, both topologies are SingleReplica and the platform type is None, and
\* Workers for every other combination; an accepted write leaves that value in
\* the ingress config.
C9_PlacementChoice ==
    LET expected == IF /\ nodes = 1
                       /\ infraConfig.controlPlaneTopology = SingleReplica
                       /\ infraConfig.infrastructureTopology = SingleReplica
                       /\ infraConfig.platform = "None"
                      THEN ControlPlane ELSE Workers
    IN /\ (runs > 0 /\ gpc \in {"retryGet", "retryPatch"}) => gloc.desired = expected
       /\ (runs > 0 /\ glog.patches > 0) => gloc.desired = expected
       /\ (runs > 0 /\ glog.written # NoValue) =>
            /\ glog.written = expected
            /\ ingressConfig.defaultPlacement = expected

\* The gate set ControlPlane on a single-node, platform-None cluster.
C9_Witness ==
    /\ GateFinished /\ gret = Nil /\ glog.read = Unset
    /\ glog.written = ControlPlane /\ ingressConfig.defaultPlacement = ControlPlane

\* C11: a call whose first fetch failed with an error other than NotFound has
\* sent nothing else and has returned that error; a call whose create or
\* update failed with an error that is no race answer has returned that error
\* right after that one attempt, with no second write and no further request.
C11_ErrorsPropagated ==
    \A c \in Callers :
      calls[c] > 0 =>
        /\ log[c][1].err = Transient =>
             /\ Len(log[c]) = 1 /\ Finished(c)
             /\ ret[c].err = Transient /\ ~ret[c].exists
        /\ (Writes(c) # <<>> /\ Writes(c)[1].err = Transient
            /\ Writes(c)[1].op \in {"create", "update"}) =>
             /\ Len(Writes(c)) = 1 /\ Finished(c)
             /\ log[c][Len(log[c])] = Writes(c)[1]
             /\ ret[c].err = Transient

\* A create failed with a transient error and the call returned it.
C11_Witness ==
    \E c \in Callers :
      /\ Finished(c) /\ Writes(c) # <<>>
      /\ Writes(c)[1].op = "create" /\ Writes(c)[1].err = Transient
      /\ ret[c].err = Transient /\ store = None

LastEntry(l) == l[Len(l)]

\* Caller c sends an update in this step.
SendsUpdate(c) ==
    /\ log'[c] # log[c]
    /\ LastEntry(log'[c]).op = "update"

\* C12: every update a call sends carries the resource version of the object
\* that call fetched; when the stored object is no longer that version the
\* update is refused (Conflict, or NotFound when the object is gone) and the
\* store is left as it was; the store changes only when the versions agree.
C12_NoLostUpdate ==
    [][\A c \in Callers :
         SendsUpdate(c) =>
           LET e == LastEntry(log'[c]) IN
           /\ e.obj.rv = Val(loc[c].current).rv
           /\ e.obj.rv = log[c][1].obj[1].rv
           /\ (store = None \/ Val(store).rv # e.obj.rv) =>
                (e.err \in {Conflict, NotFound, Transient} /\ store' = store)
           /\ e.err = Nil => (store # None /\ Val(store).rv = e.obj.rv)
      ]_vars

\* An update lost against another writer: it was answered Conflict and the
\* store holds the other writer's version.
C12_Witness ==
    \E c \in Callers :
      /\ Finished(c) /\ Writes(c) # <<>> /\ dirty[c]
      /\ Writes(c)[1].op = "update" /\ Writes(c)[1].err = Conflict
      /\ store # None /\ Val(store).rv # Val(loc[c].current).rv

\* C18: once the stored defaultPlacement is set, no step changes its value:
\* not a run that read it unset and writes after another writer has set it,
\* and not a later run.
C18_TerminalOnceSet ==
    [][ingressConfig.defaultPlacement # Unset =>
         ingressConfig'.defaultPlacement = ingressConfig.defaultPlacement]_vars

\* A spec with every empty map written as the empty non-nil map.
NormSpec(sp) ==
    IF sp = None \/ Val(sp).config = None
      THEN sp
      ELSE LET sel == Val(Val(sp).config).nodeSelector IN
           Some(WithConfig(Val(sp),
                Some(SubConfig(IF sel.entries = {} THEN EmptyMap ELSE sel))))

\* C19: when the specs of current and expected differ, the object sent to
\* update is current (same metadata, status and resource version) with its
\* spec replaced by the expected spec; when they are equal, a nil map and an
\* empty map counting as equal, no change is reported and no update is sent;
\* in both cases the object current points to is as it was.
C19_ComparatorMerge ==
    cmpOut.done =>
      LET cur == cmpIn.current
          exp == cmpIn.expected
      IN /\ cmpOut.current = Some(cur)
         /\ IF NormSpec(cur.spec) = NormSpec(exp.spec)
              THEN /\ ~cmpOut.changed /\ cmpOut.err = Nil
                   /\ cmpOut.sent = None
                   /\ store = Some(cur)
              ELSE /\ cmpOut.sent = Some([cur EXCEPT !.spec = exp.spec])
                   /\ Val(cmpOut.sent).meta = cur.meta
                   /\ Val(cmpOut.sent).status = cur.status
                   /\ Val(cmpOut.sent).rv = cur.rv
                   /\ cmpOut.changed = (cmpOut.err = Nil)

\* An update was sent for a subscription that carries metadata and a status.
C19_Witness ==
    /\ cmpOut.done /\ cmpOut.changed
    /\ cmpIn.current.meta = "x" /\ cmpIn.current.status = "AtLatestKnown"
    /\ cmpIn.current.spec # None /\ cmpIn.expected.spec # None
    /\ Val(store).spec = cmpIn.expected.spec
    /\ Val(store).status = "AtLatestKnown"

\* The body of driver d sends a request to the store in this step.
Requests(d) ==
    /\ bpc[d] \in {"getIngress", "getIC", "create"}
    /\ bpc'[d] # bpc[d]

\* Driver d calls its body in this step.
StartsBody(d) == bpc[d] = "none" /\ bpc'[d] # "none"

C14_SerialTicks ==
    \A d \in Drivers :
      /\ running[d] \in {0, 1}
      /\ tick[d].bodies \in {0, 1}
      /\ (running[d] = 1) = (lpc[d] = "calling")
      /\ (running[d] = 1) = (bpc[d] # "none")
      /\ lpc[d] = "calling" => tick[d].bodies = 1
      /\ lpc[d] = "sleep" => tick[d].bodies = 1 /\ running[d] = 0
      /\ lpc[d] = "top" => tick[d].bodies = 0

\* The bodies of the two drivers are in progress at the same time, both
\* between two of their requests to the store.
C14_Witness ==
    /\ running[DefaultIC] = 1 /\ running[LogLevel] = 1
    /\ bpc[DefaultIC] = "getIC" /\ bpc[LogLevel] = "getIngress"

\* Driver d was never launched and will not be.
NeverLaunched(d) == lpc[d] = "off" /\ spc # "getInfra"

\* C15: once ctx is cancelled every launched driver eventually is stopped; a
\* driver does not stop while its body is in progress (the body runs to its
\* end), and a stopped driver stays stopped and calls its body no more.
C15_CooperativeCancel ==
    /\ cancelled ~> (\A d \in Drivers : lpc[d] = "stopped" \/ NeverLaunched(d))
    /\ [][\A d \in Drivers :
            /\ running[d] > 0 => lpc'[d] # "stopped"
            /\ lpc[d] = "stopped" =>
                 /\ lpc'[d] = "stopped"
                 /\ bpc'[d] = "none" /\ running'[d] = 0]_vars
    /\ [](\A d \in Drivers : lpc[d] = "stopped" => cancelled /\ running[d] = 0)

\* Both drivers are stopped after a cancellation, and Start has returned.
C15_Witness ==
    /\ cancelled /\ spc = "returned"
    /\ \A d \in Drivers : lpc[d] = "stopped" /\ running[d] = 0

\* C16: the default-ingresscontroller driver stops only on cancellation:
\* whenever its body returns, whatever failed in it, the driver waits for the
\* next tick; and if from some point on nothing fails and ctx is not
\* cancelled, with the driver launched, a missing default ingresscontroller
\* eventually exists.
C16_SelfHealing ==
    /\ [](lpc[DefaultIC] = "stopped" => cancelled)
    /\ [][(bpc[DefaultIC] # "none" /\ bpc'[DefaultIC] = "none")
            => lpc'[DefaultIC] = "sleep"]_vars
    /\ (<>[](~faulty /\ ~cancelled /\ lpc[DefaultIC] # "off"))
         => ((store = None) ~> (store # None))

\* The store has healed and the driver has created the missing default
\* ingresscontroller, the one desired.
C16_Witness ==
    /\ ~faulty /\ ~cancelled /\ denv = 0
    /\ lpc[DefaultIC] = "sleep"
    /\ store # None /\ Val(store).rv > 1
    /\ [Val(store) EXCEPT !.rv = 0] = DesiredIC(infraConfig, ingressConfig)

\* C17: the ingresscontroller a tick creates is the one desired for the
\* infrastructure config and the ingress config as the store holds them during
\* that tick.
C17_NoCrossTickCaching ==
    [][(bpc[DefaultIC] = "create" /\ store = None /\ store' # None
        /\ ~icTick.infraChanged)
         => [Val(store') EXCEPT !.rv = 0]
              = DesiredIC(infraConfig, Val(icTick.ingress))]_vars

\* The level the claim gives for a configured verbosity.
LevelOf(verbosity) ==
    IF verbosity \in {Unset, "Normal"} THEN 0
    ELSE IF verbosity = "Debug" THEN -1
    ELSE IF verbosity = "Trace" THEN -2
    ELSE -3

\* ensureLogLevel returns in this step.
LogLevelReturns == bpc[LogLevel] = "getIngress" /\ bpc'[LogLevel] = "none"

\* C20: when ensureLogLevel returns after fetching the ingress config, the
\* process level is the level of the configured verbosity, and SetLevel was
\* called exactly when the level before differed from it; when the fetch
\* failed the level is as it was and SetLevel was not called.
C20_LogLevelRegulator ==
    [][LogLevelReturns =>
         IF llTick'.fetched
           THEN /\ logLevel' = LevelOf(ingressConfig.logLevel)
                /\ llTick'.wrote = (logLevel # LevelOf(ingressConfig.logLevel))
           ELSE /\ logLevel' = logLevel
                /\ ~llTick'.wrote]_vars

\* A tick has set the level to that of Trace.
C20_Witness ==
    /\ lpc[LogLevel] = "sleep"
    /\ llTick.fetched /\ llTick.wrote
    /\ ingressConfig.logLevel = "Trace" /\ logLevel = -2

\* C22: ensureDefaultIngressController is create-only.  When its fetch finds
\* a default ingresscontroller the call sends no write and returns no error,
\* whatever the object holds; the only write a call ever sends is one create,
\* and only after its fetch was answered NotFound; it sends no update and no
\* delete.
C22_CreateOnly ==
    \A c \in Callers :
      (kind = KindIC /\ calls[c] > 0) =>
        /\ log[c][1].err = Nil =>
             /\ Writes(c) = <<>>
             /\ pc[c] = "idle" /\ ret[c].err = Nil
        /\ Writes(c) # <<>> =>
             /\ log[c][1].err = NotFound
             /\ Ops(Writes(c)) = <<"create">>
        /\ \A i \in 1..Len(log[c]) : log[c][i].op \in {"get", "create"}

\* A call found an ingresscontroller that differs from the one it would build
\* and returned without a write; another call created the missing object.
C22_Witness ==
    \E c, d \in Callers :
      /\ kind = KindIC /\ Finished(c) /\ Finished(d)
      /\ log[c][1].err = Nil
      /\ Val(log[c][1].obj).replicas
           # DesiredIC(args[c].infra, args[c].ingress).replicas
      /\ Writes(c) = <<>> /\ ret[c].err = Nil
      /\ Ops(Writes(d)) = <<"create">> /\ Writes(d)[1].err = Nil
\* C23: every status write of handleSingleNode4Dot11Upgrade follows a fetch of
\* the same retry attempt and changes nothing of the ingress config but
\* status.defaultPlacement (and the resource version the store assigns): all
\* other fields, concurrent writers' changes included, stay as the store holds
\* them, and defaultPlacement itself either becomes the chosen value or stays.
C23_PatchFrame ==
    [][(gpc = "retryPatch" /\ glog'.patches = glog.patches + 1) =>
         /\ glog.gets = glog.patches + 1
         /\ \A f \in DOMAIN ingressConfig \ {"defaultPlacement", "rv"} :
              ingressConfig'[f] = ingressConfig[f]
         /\ ingressConfig'.defaultPlacement
              \in {ingressConfig.defaultPlacement, gloc.desired}
         /\ glog'.written # glog.written =>
              ingressConfig'.defaultPlacement = gloc.desired]_vars

\* Another writer reported component routes before the fetch of the attempt
\* whose write was accepted; the routes are still in the store next to the
\* defaultPlacement the gate wrote.
C23_Witness ==
    /\ GateFinished /\ gret = Nil
    /\ glog.read = Unset /\ glog.fetched = "oauth"
    /\ glog.written # NoValue
    /\ ingressConfig.defaultPlacement = glog.written
    /\ ingressConfig.componentRoutes = "oauth"
\* Start has read an infrastructure config whose control-plane topology is
\* External.
ReadExternal ==
    /\ spc \in {"gate", "manager", "returned"}
    /\ startInfra.controlPlaneTopology = External

\* C25: after Start has read control-plane topology External, the
\* default-ingresscontroller driver is never launched and never runs its body,
\* and no step puts a default ingresscontroller into the store when there is
\* none; the log-level driver is launched all the same, and Start does not
\* go on to manager.Start without having called the TopologyGate.
C25_ExternalControlPlane ==
    /\ [](ReadExternal =>
            /\ lpc[DefaultIC] = "off" /\ bpc[DefaultIC] = "none"
            /\ running[DefaultIC] = 0 /\ tick[DefaultIC].bodies = 0
            /\ lpc[LogLevel] # "off"
            /\ spc \in {"manager", "returned"} => runs > 0 /\ gpc = "idle")
    /\ [][(ReadExternal /\ store = None) => store' = None]_vars

\* With an external control plane and no default ingresscontroller in the
\* store, the gate has run, the manager is started, ensureLogLevel has
\* fetched the ingress config, and there still is no default
\* ingresscontroller.
C25_Witness ==
    /\ ReadExternal /\ spc = "manager" /\ runs > 0 /\ gret = Nil
    /\ store = None /\ lpc[DefaultIC] = "off"
    /\ llTick.fetched /\ lpc[LogLevel] = "sleep" /\ ~faulty
\* C24: a step of ensureServiceMeshOperatorInstallPlan changes at most an
\* install plan that names the desired version, and only its Approved from
\* false to true; no step of it sets Approved to false.  A call that listed
\* no install plans sends no write and returns no error; a call that listed
\* install plans none of which names the desired version sends no write and
\* returns an error; a call that found the plan approved sends no write; and
\* whatever a call sends is an approved copy of a listed plan that names the
\* desired version.
C24_ApprovalMonotonic ==
    /\ [][pothers' = pothers =>
            \A n \in PlanNames :
              plans'[n] # plans[n] =>
                /\ plans[n] # None /\ plans'[n] # None
                /\ serviceMeshOperatorDesiredVersion
                     \in Val(plans[n]).clusterServiceVersionNames
                /\ ~Val(plans[n]).approved /\ Val(plans'[n]).approved
                /\ [Val(plans'[n]) EXCEPT !.approved = FALSE, !.rv = 0]
                     = [Val(plans[n]) EXCEPT !.rv = 0]]_vars
    /\ []((pcalls > 0 /\ plog.listed # None) =>
            LET items == Val(plog.listed)
                named == {n \in PlanNames :
                            /\ items[n] # None
                            /\ serviceMeshOperatorDesiredVersion
                                 \in Val(items[n]).clusterServiceVersionNames}
            IN /\ (\A n \in PlanNames : items[n] = None) =>
                    /\ plog.sent = None
                    /\ PlanFinished /\ pret.err = Nil /\ ~pret.updated
               /\ ((\E n \in PlanNames : items[n] # None) /\ named = {}) =>
                    /\ plog.sent = None
                    /\ PlanFinished /\ pret.err # Nil /\ ~pret.updated
               /\ (named # {} /\ \A n \in named : Val(items[n]).approved) =>
                    /\ plog.sent = None
                    /\ PlanFinished /\ pret.err = Nil /\ ~pret.updated
               /\ plog.sent # None =>
                    /\ Val(plog.sent).name \in named
                    /\ Val(plog.sent).approved
                    /\ ~Val(items[Val(plog.sent).name]).approved
                    /\ [Val(plog.sent) EXCEPT !.approved = FALSE]
                         = Val(items[Val(plog.sent).name]))
    /\ []((pcalls > 0 /\ plog.listed = None) =>
            plog.sent = None /\ PlanFinished /\ pret.err = Transient)

\* A call approved the plan that names the desired version and left alone an
\* unapproved plan listed before it that does not.
C24_Witness ==
    /\ PlanFinished /\ pret.updated /\ pret.err = Nil /\ plog.answer = Nil
    /\ plans[1] # None /\ plans[MaxPlans] # None
    /\ ~Val(plans[1]).approved
    /\ Val(plans[1]).clusterServiceVersionNames = {OtherVersion}
    /\ Val(plans[MaxPlans]).approved
    /\ Val(plog.sent).name = MaxPlans
\* C21: every write the store accepted from a call of ensureTrustedCAConfigMap,
\* ensureServiceMeshOperatorSubscription, ensureDefaultIngressController or
\* ensureServiceMeshOperatorInstallPlan has one log record, written by that
\* call, and a call that ended in NoOp or in an error has written no record.
C21_EventAccounting ==
    /\ \A c \in Callers :
         calls[c] > 0 =>
           /\ events[c] = Len(SelectSeq(Writes(c), LAMBDA e : e.err = Nil))
           /\ (Finished(c) /\ (ret[c].action = "NoOp" \/ ret[c].err # Nil)) =>
                events[c] = 0
    /\ pcalls > 0 =>
         /\ events[PlanCaller] = IF plog.answer = Nil THEN 1 ELSE 0
         /\ (PlanFinished /\ (~pret.updated \/ pret.err # Nil)) =>
              events[PlanCaller] = 0
====
